---- MODULE Spec2Model ----
(***************************************************************************)
(* A model of gravinyon (src/src/lib.rs): the per-mesh instance table      *)
(* (InstanceTable, lines 627-737) and the game loop that drives it         *)
(* (lines 739-1134).                                                       *)
(*                                                                         *)
(* f32 quantities are modelled in fixed point: one unit is 0.0001, so the  *)
(* play field is x in -11000..11000, y in -5000..5000.  A NaN (which the   *)
(* f32 code produces when it normalises a zero vector) is carried by a     *)
(* flag `nan` beside the coordinates: every comparison with a NaN is       *)
(* false, as in IEEE 754.  The render angle of an instance is not          *)
(* modelled.                                                               *)
(***************************************************************************)
EXTENDS Integers, Sequences, FiniteSets, TLC

VARIABLES
    instance_table,   \* InstanceTable.table: mesh -> [instances, unused_instances]
    objects,          \* Vec<Object>
    cursor_position,  \* last CursorMoved position
    shooting,         \* left button held
    shooting_delay,   \* fire cooldown
    game_over,
    score,
    panicked,         \* the process ended in a panic (fatal error outcome)
    last,             \* the last operation and what it was given / returned
    live,             \* handles issued by insert_new_instance and not removed since
    freed,            \* handles removed at least once (copies of them are stale)
    driver,           \* who calls the table: "event_loop" (the game) or "table_client"
    frame_log,        \* what the last frame did: the objects its loop scanned and
                      \* left, the pairs found colliding, the dead, the removed;
                      \* and the simulated frames since the last volley
    frames,           \* simulated frames so far (bounded by MaxFrames)
    thrusts           \* thrust presses so far (bounded by MaxThrusts)

vars == <<instance_table, objects, cursor_position, shooting, shooting_delay,
          game_over, score, panicked, last, live, freed, driver, frame_log, frames,
          thrusts>>

gameVars == <<objects, cursor_position, shooting, shooting_delay, game_over,
              score, driver, frame_log, frames, thrusts>>

(***************************************************************************)
(* Bounds of the model.                                                    *)
(***************************************************************************)
\* Spec: the most simulated frames, and the most thrust presses.
MaxFrames == 230
MaxThrusts == 1
\* SpecTable: the most slots, over all meshes, the table client lets the
\* table grow to.
MaxSlots == 2

\* F applied to the value of x, which is computed once however often F uses
\* it.
Bind(x, F(_)) == CHOOSE r \in {F(v) : v \in {x}} : TRUE

(***************************************************************************)
(* The instance table.                                                     *)
(***************************************************************************)
\* enum WhichMesh
WhichMesh == {"Obstacle", "Shot", "Ship"}

\* The order in which the construction loop inserts the per-mesh arrays.
MeshOrder == <<"Obstacle", "Ship", "Shot">>

\* ObjectInstancePod::zeroed(): every field 0.
Zeroed == [x |-> 0, y |-> 0, scale |-> 0, shade_sensitivity |-> 0, nan |-> FALSE]

\* InstanceArrayForOneMesh as the construction loop creates it.
EmptyArray == [instances |-> << >>, unused_instances |-> << >>]

\* InstanceTable { table: HashMap::new() }
EmptyTable == [m \in {} |-> EmptyArray]

\* InstanceID
InstanceID(mesh, index) == [mesh |-> mesh, instance_index |-> index]

\* table.insert(mesh, InstanceArrayForOneMesh { .. })
TableInsertMesh(table, mesh) ==
    [m \in (DOMAIN table) \cup {mesh} |-> IF m = mesh THEN EmptyArray ELSE table[m]]

\* InstanceTable::instance_array_len; -1 stands for None.
instance_array_len(table, mesh) ==
    IF mesh \in DOMAIN table THEN Len(table[mesh].instances) ELSE -1

\* The scan `for index in 0..array.instances.len()` from position i on: the
\* first position marked unused, 0 when there is none, -1 when the scan
\* indexes unused_instances out of bounds (a panic).  Positions are 1-based
\* here: slot k of the source is position k + 1.
RECURSIVE FirstUnusedFromLast(_, _)
FirstUnusedFromLast(array, i) ==
    IF i < 1 THEN 0
    ELSE IF i > Len(array.unused_instances) THEN -1
    ELSE IF array.unused_instances[i] THEN i
    ELSE FirstUnusedFromLast(array, i - 1)

RECURSIVE FirstUnusedFrom(_, _)
FirstUnusedFrom(array, i) ==
    IF i > Len(array.instances) THEN 0
    ELSE IF i > Len(array.unused_instances) THEN -1
    ELSE IF array.unused_instances[i] THEN i
    ELSE FirstUnusedFrom(array, i + 1)

first_unused_mut_last(array) == FirstUnusedFromLast(array, Len(array.instances))

first_unused(array) == FirstUnusedFrom(array, 1)

insert_new_instance_mut_no_clear(table, mesh, instance) ==
    IF mesh \notin DOMAIN table
    THEN [table |-> table, id |-> InstanceID(mesh, 0), panic |-> TRUE]
    ELSE Bind(first_unused(table[mesh]),
              LAMBDA k :
                 IF k < 0
                 THEN [table |-> table, id |-> InstanceID(mesh, 0), panic |-> TRUE]
                 ELSE IF k > 0
                 THEN [table |-> [table EXCEPT ![mesh].instances[k] = instance],
                       id |-> InstanceID(mesh, k - 1), panic |-> FALSE]
                 ELSE [table |-> [table EXCEPT
                           ![mesh].instances = Append(@, instance),
                           ![mesh].unused_instances = Append(@, FALSE)],
                       id |-> InstanceID(mesh, Len(table[mesh].instances)),
                       panic |-> FALSE])

insert_new_instance_mut_append(table, mesh, instance) ==
    IF mesh \notin DOMAIN table
    THEN [table |-> table, id |-> InstanceID(mesh, 0), panic |-> TRUE]
    ELSE [table |-> [table EXCEPT ![mesh].instances = Append(@, instance),
                                  ![mesh].unused_instances = Append(@, FALSE)],
          id |-> InstanceID(mesh, Len(table[mesh].instances)), panic |-> FALSE]

insert_new_instance_mut_no_mark(table, mesh, instance) ==
    IF mesh \notin DOMAIN table
    THEN [table |-> table, id |-> InstanceID(mesh, 0), panic |-> TRUE]
    ELSE Bind(first_unused(table[mesh]),
              LAMBDA k :
                 IF k < 0
                 THEN [table |-> table, id |-> InstanceID(mesh, 0), panic |-> TRUE]
                 ELSE IF k > 0
                 THEN [table |-> [table EXCEPT ![mesh].unused_instances[k] = FALSE,
                                               ![mesh].instances[k] = instance],
                       id |-> InstanceID(mesh, k - 1), panic |-> FALSE]
                 ELSE [table |-> [table EXCEPT ![mesh].instances = Append(@, instance)],
                       id |-> InstanceID(mesh, Len(table[mesh].instances)),
                       panic |-> FALSE])

\* InstanceTable::insert_new_instance: the table after the call, the id it
\* returns, and whether it panicked ("The table for mesh .. is missing", or
\* an index out of bounds).
insert_new_instance(table, mesh, instance) ==
    IF mesh \notin DOMAIN table
    THEN [table |-> table, id |-> InstanceID(mesh, 0), panic |-> TRUE]
    ELSE Bind(first_unused(table[mesh]),
              LAMBDA k :
                 IF k < 0
                 THEN [table |-> table, id |-> InstanceID(mesh, 0), panic |-> TRUE]
                 ELSE IF k > 0
                 THEN [table |-> [table EXCEPT ![mesh].unused_instances[k] = FALSE,
                                               ![mesh].instances[k] = instance],
                       id |-> InstanceID(mesh, k - 1), panic |-> FALSE]
                 ELSE [table |-> [table EXCEPT
                           ![mesh].instances = Append(@, instance),
                           ![mesh].unused_instances = Append(@, FALSE)],
                       id |-> InstanceID(mesh, Len(table[mesh].instances)),
                       panic |-> FALSE])

remove_instance_mut_no_zero(table, instance_id) ==
    IF instance_id.mesh \notin DOMAIN table
    THEN [table |-> table, panic |-> TRUE]
    ELSE IF instance_id.instance_index + 1 > Len(table[instance_id.mesh].instances)
    THEN [table |-> table, panic |-> TRUE]
    ELSE [table |-> [table EXCEPT
              ![instance_id.mesh].unused_instances[instance_id.instance_index + 1] = TRUE],
          panic |-> FALSE]

remove_instance_mut_compact(table, instance_id) ==
    IF instance_id.mesh \notin DOMAIN table
    THEN [table |-> table, panic |-> TRUE]
    ELSE IF instance_id.instance_index + 1 > Len(table[instance_id.mesh].instances)
    THEN [table |-> table, panic |-> TRUE]
    ELSE [table |-> [table EXCEPT
              ![instance_id.mesh].instances =
                  SubSeq(@, 1, instance_id.instance_index)
                      \o SubSeq(@, instance_id.instance_index + 2, Len(@)),
              ![instance_id.mesh].unused_instances =
                  SubSeq(@, 1, instance_id.instance_index)
                      \o SubSeq(@, instance_id.instance_index + 2, Len(@))],
          panic |-> FALSE]

remove_instance_mut_ignore_invalid(table, instance_id) ==
    IF instance_id.mesh \notin DOMAIN table
    THEN [table |-> table, panic |-> FALSE]
    ELSE IF instance_id.instance_index + 1 > Len(table[instance_id.mesh].instances)
    THEN [table |-> table, panic |-> FALSE]
    ELSE [table |-> [table EXCEPT
              ![instance_id.mesh].instances[instance_id.instance_index + 1] = Zeroed,
              ![instance_id.mesh].unused_instances[instance_id.instance_index + 1] = TRUE],
          panic |-> FALSE]

\* InstanceTable::remove_instance: the table after the call and whether it
\* panicked (unwrap of a missing mesh, or an index out of bounds); a panic
\* comes before any write.
remove_instance(table, instance_id) ==
    IF instance_id.mesh \notin DOMAIN table
    THEN [table |-> table, panic |-> TRUE]
    ELSE LET k == instance_id.instance_index + 1
         IN IF k > Len(table[instance_id.mesh].instances)
            THEN [table |-> table, panic |-> TRUE]
            ELSE [table |-> [table EXCEPT
                      ![instance_id.mesh].instances[k] = Zeroed,
                      ![instance_id.mesh].unused_instances[k] = TRUE],
                  panic |-> FALSE]

\* write_instance that also marks the slot as in use.
write_instance_mut_marks_used(table, instance_id, instance) ==
    IF instance_id.mesh \notin DOMAIN table
    THEN [table |-> table, panic |-> TRUE]
    ELSE IF instance_id.instance_index + 1 > Len(table[instance_id.mesh].instances)
    THEN [table |-> table, panic |-> TRUE]
    ELSE [table |-> [table EXCEPT
              ![instance_id.mesh].instances[instance_id.instance_index + 1] = instance,
              ![instance_id.mesh].unused_instances[instance_id.instance_index + 1] = FALSE],
          panic |-> FALSE]

\* The instance write of the refresh loop (vec[instance_index] = pod), which
\* is also what MeshInstanceVec::set does: unwrap and index panic, nothing
\* else is checked.
write_instance_mut_checks_unused(table, instance_id, instance) ==
    IF instance_id.mesh \notin DOMAIN table
    THEN [table |-> table, panic |-> TRUE]
    ELSE IF instance_id.instance_index + 1 > Len(table[instance_id.mesh].instances)
    THEN [table |-> table, panic |-> TRUE]
    ELSE IF table[instance_id.mesh].unused_instances[instance_id.instance_index + 1]
    THEN [table |-> table, panic |-> TRUE]
    ELSE [table |-> [table EXCEPT
              ![instance_id.mesh].instances[instance_id.instance_index + 1] = instance],
          panic |-> FALSE]

write_instance(table, instance_id, instance) ==
    IF instance_id.mesh \notin DOMAIN table
    THEN [table |-> table, panic |-> TRUE]
    ELSE LET k == instance_id.instance_index + 1
         IN IF k > Len(table[instance_id.mesh].instances)
            THEN [table |-> table, panic |-> TRUE]
            ELSE [table |-> [table EXCEPT ![instance_id.mesh].instances[k] = instance],
                  panic |-> FALSE]

(***************************************************************************)
(* Fixed-point arithmetic: one unit is 0.0001.                             *)
(***************************************************************************)
\* Units per 1.0.
One == 10000

Abs(a) == IF a < 0 THEN -a ELSE a

\* a / b rounded to the nearest integer (b > 0).
Round(a, b) == (2 * a + b) \div (2 * b)

RECURSIVE IsqrtIn(_, _, _)
IsqrtIn(n, lo, hi) ==
    IF lo >= hi THEN lo
    ELSE LET mid == (lo + hi + 1) \div 2
         IN IF mid * mid <= n THEN IsqrtIn(n, mid, hi) ELSE IsqrtIn(n, lo, mid - 1)

\* floor(sqrt(n)) for 0 <= n < 2^31.
Isqrt(n) == IsqrtIn(n, 0, 46340)

\* cgmath::Point2 / Vector2; a NaN vector is kept in one canonical form.
Vec(x, y) == [x |-> x, y |-> y, nan |-> FALSE]
NaNVec == [x |-> 0, y |-> 0, nan |-> TRUE]

VAdd(a, b) == IF a.nan \/ b.nan THEN NaNVec ELSE Vec(a.x + b.x, a.y + b.y)
VSub(a, b) == IF a.nan \/ b.nan THEN NaNVec ELSE Vec(a.x - b.x, a.y - b.y)

\* v * num / den, rounded.
VScale(v, num, den) ==
    IF v.nan THEN NaNVec ELSE Vec(Round(v.x * num, den), Round(v.y * num, den))

\* InnerSpace::magnitude2 and magnitude (of a vector that is not NaN).
Magnitude2(v) == Bind(v, LAMBDA w : w.x * w.x + w.y * w.y)
Magnitude(v) == Isqrt(Magnitude2(v))

\* A short vector scaled up (direction kept) so that its length is precise.
RECURSIVE ScaledUp(_)
ScaledUp(v) ==
    IF Abs(v.x) > 2000 \/ Abs(v.y) > 2000 THEN v
    ELSE ScaledUp(Vec(v.x * 10, v.y * 10))

\* InnerSpace::normalize: v / |v|, in units of 1/One; NaN for the zero vector
\* (0.0 / 0.0).
normalize(v) ==
    IF v.nan \/ (v.x = 0 /\ v.y = 0) THEN NaNVec
    ELSE Bind(ScaledUp(v), LAMBDA w : VScale(w, One, Magnitude(w)))

\* (cos a, sin a) for a = atan2(v.y, v.x), in units of 1/One; atan2(0, 0) = 0.
Direction(v) ==
    IF v.nan THEN NaNVec
    ELSE IF v.x = 0 /\ v.y = 0 THEN Vec(One, 0)
    ELSE normalize(v)

\* (cos(a + TAU/4), sin(a + TAU/4)) from (cos a, sin a).
QuarterTurnLeft(d) == IF d.nan THEN NaNVec ELSE Vec(-d.y, d.x)

(***************************************************************************)
(* Objects.                                                                *)
(***************************************************************************)
\* Object::SHIP_SCALE = 0.02
SHIP_SCALE == 200
\* the Shot arm of Object::scale: 0.01
SHOT_SCALE == 100
\* life of a spawned Obstacle
OBSTACLE_LIFE == 21
\* init_objects spawns 5 Obstacles, an Obstacle death spawns 2
INITIAL_OBSTACLES == 5
SPAWNED_OBSTACLES == 2
\* shooting_delay_max
shooting_delay_max == 13
\* play field: |x| <= 1.1, Shots live in |y| <= 0.6, the others bounce at 0.5
X_LIMIT == 11000
Y_LIMIT_SHOT == 6000
Y_LIMIT == 5000
\* x at which Obstacles are spawned: 1.05
SPAWN_X == 10500

\* Object::Ship { position, motion, instance_id }
Ship(position, motion, instance_id) ==
    [kind |-> "Ship", position |-> position, motion |-> motion,
     instance_id |-> instance_id]

\* Object::Shot { position, angle, instance_id }; the angle is kept as
\* (cos angle, sin angle) in units of 1/One.
Shot(position, angle, instance_id) ==
    [kind |-> "Shot", position |-> position, angle |-> angle,
     instance_id |-> instance_id]

\* Object::Obstacle { position, motion, scale, life, instance_id } (angle and
\* angle_rotation only feed the render angle).
Obstacle(position, motion, scale, life, instance_id) ==
    [kind |-> "Obstacle", position |-> position, motion |-> motion,
     scale |-> scale, life |-> life, instance_id |-> instance_id]

is_ship(object) == object.kind = "Ship"
is_shot(object) == object.kind = "Shot"
is_obstacle(object) == object.kind = "Obstacle"

\* Object::scale
scale(object) ==
    CASE object.kind = "Ship" -> SHIP_SCALE
      [] object.kind = "Shot" -> SHOT_SCALE
      [] OTHER -> object.scale

\* collide_with that also takes touching objects as colliding.
collide_with_mut_le(object, other) ==
    IF object.position.nan \/ other.position.nan THEN FALSE
    ELSE Magnitude2(VSub(object.position, other.position))
             <= (scale(object) + scale(other)) * (scale(object) + scale(other))

\* Object::collide_with: distance < self.scale() + other.scale(); false when
\* a position is NaN.
collide_with(object, other) ==
    IF object.position.nan \/ other.position.nan THEN FALSE
    ELSE Magnitude2(VSub(object.position, other.position))
             < (scale(object) + scale(other)) * (scale(object) + scale(other))

(***************************************************************************)
(* Spawning.                                                               *)
(***************************************************************************)
\* One outcome of the rand calls of spawn_obstacles for one Obstacle:
\* y in -0.4..0.4, scale in 0.02..0.04, motion.x in -0.003..0.0005,
\* motion.y in -0.001..0.001 (upper ends excluded).
Draw(y, s, mx, my) == [y |-> y, scale |-> s, motion |-> Vec(mx, my)]

\* The outcomes of the random generator the model follows: each is the
\* sequence of draws of one call of spawn_obstacles (its first how_many).
DrawPatterns ==
    { << Draw(0, 300, -30, 0), Draw(3000, 200, 0, 0), Draw(-3999, 399, 4, -10),
         Draw(3999, 250, -12, 9), Draw(-1500, 350, -30, 3) >>,
      << Draw(100, 399, 0, 0), Draw(-100, 399, 0, 0), Draw(2000, 200, -30, -10),
         Draw(-2500, 300, 4, 9), Draw(0, 200, -15, 0) >> }

SpawnDraws(how_many) == { SubSeq(p, 1, how_many) : p \in DrawPatterns }

\* spawn_obstacles: pushes one Obstacle per draw, each with a fresh instance.
RECURSIVE spawn_obstacles(_, _, _)
spawn_obstacles(objs, table, draws) ==
    IF draws = << >> THEN [objects |-> objs, table |-> table, panic |-> FALSE]
    ELSE Bind(<<objs, insert_new_instance(table, "Obstacle", Zeroed), Head(draws)>>,
              LAMBDA b :
                 IF b[2].panic
                 THEN [objects |-> b[1], table |-> b[2].table, panic |-> TRUE]
                 ELSE spawn_obstacles(
                          Append(b[1], Obstacle(Vec(SPAWN_X, b[3].y), b[3].motion,
                                                b[3].scale, OBSTACLE_LIFE, b[2].id)),
                          b[2].table, Tail(draws)))

\* init_objects: a new collection with the Ship at (0, 0) and 5 Obstacles.
init_objects(table, draws) ==
    Bind(insert_new_instance(table, "Ship", Zeroed),
         LAMBDA r :
            IF r.panic THEN [objects |-> << >>, table |-> r.table, panic |-> TRUE]
            ELSE spawn_obstacles(<< Ship(Vec(0, 0), Vec(0, 0), r.id) >>, r.table, draws))

(***************************************************************************)
(* Ship control and firing.                                                *)
(***************************************************************************)
\* 0.000025, in units: force = normalize(d) * HOMING_FORCE / |d|^2
HOMING_FORCE == 2500
\* 0.003
THRUST_FORCE == 30
\* 0.035, 0.016, 0.015
SHOT_FORWARD == 350
SHOT_SIDE == 160
SHOT_SPEED == 150

\* The force of the MainEventsCleared ship control: towards the cursor,
\* 0.000025 / distance^2, at most 0.0001 (one unit); NaN at distance 0.
homing_force(position, cursor) ==
    Bind(VSub(cursor, position),
         LAMBDA d :
            Bind(normalize(d),
                 LAMBDA n :
                    IF n.nan THEN NaNVec
                    ELSE IF HOMING_FORCE * One > Magnitude2(d)
                    THEN VScale(n, 1, One)
                    ELSE VScale(n, HOMING_FORCE, Magnitude2(d))))

\* The force of a right button press: 0.003 towards the cursor.
thrust_force(position, cursor) ==
    VScale(Direction(VSub(cursor, position)), THRUST_FORCE, One)

\* The i-th Shot of a volley (i = 0, 1), before it gets its instance.
shot_position(ship_position, cursor, i) ==
    Bind(Direction(VSub(cursor, ship_position)),
         LAMBDA ship_direction :
            VAdd(VAdd(ship_position, VScale(ship_direction, SHOT_FORWARD, One)),
                 VScale(QuarterTurnLeft(ship_direction), SHOT_SIDE * (i * 2 - 1), One)))

shot_angle(position, cursor) == Direction(normalize(VSub(cursor, position)))

\* fire_shots that pushes one Shot only.
RECURSIVE fire_shots_mut_single(_, _, _, _)
fire_shots_mut_single(objs, table, cursor, i) ==
    IF i >= 1 THEN [objects |-> objs, table |-> table, panic |-> FALSE]
    ELSE Bind(<<objs, insert_new_instance(table, "Shot", Zeroed)>>,
              LAMBDA b :
                 IF b[2].panic
                 THEN [objects |-> b[1], table |-> b[2].table, panic |-> TRUE]
                 ELSE Bind(shot_position(b[1][1].position, cursor, i),
                           LAMBDA position :
                              fire_shots_mut_single(
                                  Append(b[1], Shot(position, shot_angle(position, cursor),
                                                    b[2].id)),
                                  b[2].table, cursor, i + 1)))

\* The firing loop: two Shots pushed, each with a fresh instance.
RECURSIVE fire_shots(_, _, _, _)
fire_shots(objs, table, cursor, i) ==
    IF i >= 2 THEN [objects |-> objs, table |-> table, panic |-> FALSE]
    ELSE Bind(<<objs, insert_new_instance(table, "Shot", Zeroed)>>,
              LAMBDA b :
                 IF b[2].panic
                 THEN [objects |-> b[1], table |-> b[2].table, panic |-> TRUE]
                 ELSE Bind(shot_position(b[1][1].position, cursor, i),
                           LAMBDA position :
                              fire_shots(Append(b[1], Shot(position,
                                                           shot_angle(position, cursor),
                                                           b[2].id)),
                                         b[2].table, cursor, i + 1)))

(***************************************************************************)
(* The simulation of one frame (MainEventsCleared, lines 871-1047).        *)
(***************************************************************************)
\* u32::saturating_sub
saturating_sub(a, b) == IF a > b THEN a - b ELSE 0

\* decrement_delay that takes two off the cooldown.
decrement_delay_mut_two(delay) == IF 0 <= delay THEN delay - 2 ELSE delay

\* `if 0 <= shooting_delay { shooting_delay -= 1; }`
decrement_delay(delay) == IF 0 <= delay THEN delay - 1 ELSE delay

\* 'object_pairs_loop for the object at index i: what the scan of the other
\* objects finds.
Count(objs, i, P(_, _)) ==
    Cardinality({j \in 1..Len(objs) : j # i /\ P(objs[i], objs[j])})

\* ShotHitsObstacle that takes any object the Shot overlaps.
ShotHitsObstacle_mut_any(object, other) ==
    is_shot(object) /\ collide_with(object, other)

ShotHitsObstacle(object, other) ==
    is_shot(object) /\ is_obstacle(other) /\ collide_with(object, other)
\* ObstacleHitByShot that misses a Shot whose centre is outside the Obstacle.
ObstacleHitByShot_mut_centre(object, other) ==
    /\ is_obstacle(object)
    /\ is_shot(other)
    /\ collide_with(object, Obstacle(other.position, Vec(0, 0), 0, 1, other.instance_id))

ObstacleHitByShot(object, other) ==
    is_obstacle(object) /\ is_shot(other) /\ collide_with(object, other)
\* ShipHitsObstacle that misses an Obstacle whose centre is outside the Ship.
ShipHitsObstacle_mut_centre(object, other) ==
    /\ is_ship(object)
    /\ is_obstacle(other)
    /\ collide_with(object, [other EXCEPT !.scale = 0])

ShipHitsObstacle(object, other) ==
    is_ship(object) /\ is_obstacle(other) /\ collide_with(object, other)

object_pairs_loop(objs, i) ==
    [object_is_shot_and_dies |-> Count(objs, i, ShotHitsObstacle) > 0,
     object_is_obstacle_and_takes_damage |-> Count(objs, i, ObstacleHitByShot),
     game_over |-> Count(objs, i, ShipHitsObstacle) > 0]

\* The other objects for which an arm of 'object_pairs_loop is taken in the
\* scan of the object at index i.
pairs_hit(objs, i) ==
    {j \in 1..Len(objs) :
        /\ j # i
        /\ \/ ShotHitsObstacle(objs[i], objs[j])
           \/ ObstacleHitByShot(objs[i], objs[j])
           \/ ShipHitsObstacle(objs[i], objs[j])}

\* x wraps at the left and right limits.
wrap_x(x) == IF x <= -X_LIMIT THEN X_LIMIT ELSE IF x > X_LIMIT THEN -X_LIMIT ELSE x

\* move_obstacle that clamps y at a margin but keeps the motion.
move_obstacle_mut_no_flip(object) ==
    LET p == VAdd(object.position, object.motion)
        x == wrap_x(p.x)
        low == -Y_LIMIT + object.scale
        high == Y_LIMIT - object.scale
    IN IF p.y < low THEN [object EXCEPT !.position = Vec(x, low)]
       ELSE IF p.y > high THEN [object EXCEPT !.position = Vec(x, high)]
       ELSE [object EXCEPT !.position = Vec(x, p.y)]

\* The motion of an Obstacle: position += motion, wrap in x, bounce in y.
move_obstacle(object) ==
    LET p == VAdd(object.position, object.motion)
        x == wrap_x(p.x)
        low == -Y_LIMIT + object.scale
        high == Y_LIMIT - object.scale
    IN IF p.y < low
       THEN [object EXCEPT !.position = Vec(x, low),
                           !.motion = Vec(object.motion.x, Abs(object.motion.y))]
       ELSE IF p.y > high
       THEN [object EXCEPT !.position = Vec(x, high),
                           !.motion = Vec(object.motion.x, -Abs(object.motion.y))]
       ELSE [object EXCEPT !.position = Vec(x, p.y)]

\* The motion of the Ship: as an Obstacle, and a bounce damps the motion by
\* 0.95.  A NaN position passes every test and stays.
move_ship(object) ==
    LET p == VAdd(object.position, object.motion)
        low == -Y_LIMIT + SHIP_SCALE
        high == Y_LIMIT - SHIP_SCALE
    IN IF p.nan THEN [object EXCEPT !.position = NaNVec]
       ELSE IF p.y < low
       THEN [object EXCEPT !.position = Vec(wrap_x(p.x), low),
                !.motion = VScale(Vec(object.motion.x, Abs(object.motion.y)), 95, 100)]
       ELSE IF p.y > high
       THEN [object EXCEPT !.position = Vec(wrap_x(p.x), high),
                !.motion = VScale(Vec(object.motion.x, -Abs(object.motion.y)), 95, 100)]
       ELSE [object EXCEPT !.position = Vec(wrap_x(p.x), p.y)]

\* The motion of a Shot: 0.015 along its angle.
move_shot(object) ==
    [object EXCEPT !.position = VAdd(object.position, VScale(object.angle, SHOT_SPEED, One))]

\* Whether a Shot has left the play bounds (false for a NaN position).
shot_is_out(object) ==
    /\ ~object.position.nan
    /\ \/ object.position.x <= -X_LIMIT
       \/ object.position.x > X_LIMIT
       \/ object.position.y <= -Y_LIMIT_SHOT
       \/ object.position.y > Y_LIMIT_SHOT

\* take_damage that takes one life however many Shots hit.
take_damage_mut_one(object, damage) ==
    IF damage > 0 THEN [object EXCEPT !.life = saturating_sub(@, 1)] ELSE object

\* The object after the damage of its scan: life.saturating_sub(damage).
take_damage(object, damage) ==
    IF damage > 0 THEN [object EXCEPT !.life = saturating_sub(@, damage)] ELSE object

\* 'object_loop runs on the state st = [objects, dead_object_indices, score,
\* spawn_event, game_over, hits]; hits records, for the frame's log, the
\* pairs <<i, j>> for which the scan of object i took an arm against object j.
\* object_loop_body with the score counting every death.
object_loop_body_mut_score_any(st, i, scan, damaged) ==
    IF scan.object_is_shot_and_dies \/ (is_obstacle(damaged) /\ damaged.life = 0)
    THEN [st EXCEPT !.objects[i] = damaged,
                    !.dead_object_indices = Append(@, i),
                    !.score = @ + 1,
                    !.spawn_event = @ \/ is_obstacle(damaged),
                    !.game_over = @ \/ scan.game_over]
    ELSE IF is_obstacle(damaged)
    THEN [st EXCEPT !.objects[i] = move_obstacle(damaged),
                    !.game_over = @ \/ scan.game_over]
    ELSE IF is_ship(damaged)
    THEN [st EXCEPT !.objects[i] = move_ship(damaged),
                    !.game_over = @ \/ scan.game_over]
    ELSE Bind(move_shot(damaged),
              LAMBDA moved :
                 [st EXCEPT !.objects[i] = moved,
                            !.dead_object_indices =
                                IF shot_is_out(moved) THEN Append(@, i) ELSE @,
                            !.game_over = @ \/ scan.game_over])

\* object_loop_body in which an Obstacle with life 0 is not marked dead.
object_loop_body_mut_obstacle_stays(st, i, scan, damaged) ==
    IF scan.object_is_shot_and_dies
    THEN [st EXCEPT !.objects[i] = damaged,
                    !.dead_object_indices = Append(@, i),
                    !.game_over = @ \/ scan.game_over]
    ELSE IF is_obstacle(damaged)
    THEN [st EXCEPT !.objects[i] = move_obstacle(damaged),
                    !.game_over = @ \/ scan.game_over]
    ELSE IF is_ship(damaged)
    THEN [st EXCEPT !.objects[i] = move_ship(damaged),
                    !.game_over = @ \/ scan.game_over]
    ELSE Bind(move_shot(damaged),
              LAMBDA moved :
                 [st EXCEPT !.objects[i] = moved,
                            !.dead_object_indices =
                                IF shot_is_out(moved) THEN Append(@, i) ELSE @,
                            !.game_over = @ \/ scan.game_over])

\* object_loop_body that puts the Ship in the death list when it is hit.
object_loop_body_mut_ship_dies(st, i, scan, damaged) ==
    IF \/ scan.object_is_shot_and_dies
       \/ (is_obstacle(damaged) /\ damaged.life = 0)
       \/ (is_ship(damaged) /\ scan.game_over)
    THEN [st EXCEPT !.objects[i] = damaged,
                    !.dead_object_indices = Append(@, i),
                    !.score = IF is_obstacle(damaged) THEN @ + 1 ELSE @,
                    !.spawn_event = @ \/ is_obstacle(damaged),
                    !.game_over = @ \/ scan.game_over]
    ELSE IF is_obstacle(damaged)
    THEN [st EXCEPT !.objects[i] = move_obstacle(damaged),
                    !.game_over = @ \/ scan.game_over]
    ELSE IF is_ship(damaged)
    THEN [st EXCEPT !.objects[i] = move_ship(damaged),
                    !.game_over = @ \/ scan.game_over]
    ELSE Bind(move_shot(damaged),
              LAMBDA moved :
                 [st EXCEPT !.objects[i] = moved,
                            !.dead_object_indices =
                                IF shot_is_out(moved) THEN Append(@, i) ELSE @,
                            !.game_over = @ \/ scan.game_over])

\* The rest of an iteration of 'object_loop, after the scan and the damage:
\* the death decision (with score and spawn_event), else the motion.
object_loop_body(st, i, scan, damaged) ==
    IF scan.object_is_shot_and_dies \/ (is_obstacle(damaged) /\ damaged.life = 0)
    THEN [st EXCEPT !.objects[i] = damaged,
                    !.dead_object_indices = Append(@, i),
                    !.score = IF is_obstacle(damaged) THEN @ + 1 ELSE @,
                    !.spawn_event = @ \/ is_obstacle(damaged),
                    !.game_over = @ \/ scan.game_over]
    ELSE IF is_obstacle(damaged)
    THEN [st EXCEPT !.objects[i] = move_obstacle(damaged),
                    !.game_over = @ \/ scan.game_over]
    ELSE IF is_ship(damaged)
    THEN [st EXCEPT !.objects[i] = move_ship(damaged),
                    !.game_over = @ \/ scan.game_over]
    ELSE Bind(move_shot(damaged),
              LAMBDA moved :
                 [st EXCEPT !.objects[i] = moved,
                            !.dead_object_indices =
                                IF shot_is_out(moved) THEN Append(@, i) ELSE @,
                            !.game_over = @ \/ scan.game_over])

\* One iteration of 'object_loop.
object_loop_step(st, i) ==
    Bind(object_pairs_loop(st.objects, i),
         LAMBDA scan :
            Bind(take_damage(st.objects[i], scan.object_is_obstacle_and_takes_damage),
                 LAMBDA damaged :
                    [object_loop_body(st, i, scan, damaged) EXCEPT
                        !.hits = @ \cup {<<i, j>> : j \in pairs_hit(st.objects, i)}]))

RECURSIVE object_loop(_, _)
object_loop(st0, i) ==
    Bind(st0, LAMBDA st :
                 IF i > Len(st.objects) THEN st
                 ELSE object_loop(object_loop_step(st, i), i + 1))

\* dead_object_indices.sort()
RECURSIVE Insert(_, _)
Insert(sorted, a) ==
    IF sorted = << >> THEN << a >>
    ELSE IF a <= Head(sorted) THEN << a >> \o sorted
    ELSE << Head(sorted) >> \o Insert(Tail(sorted), a)

RECURSIVE Sort(_)
Sort(seq) == IF seq = << >> THEN << >> ELSE Insert(Sort(Tail(seq)), Head(seq))

\* Vec::remove
RemoveAt(seq, i) == SubSeq(seq, 1, i - 1) \o SubSeq(seq, i + 1, Len(seq))

\* remove_dead that goes through the dead indices in ascending order.
RECURSIVE remove_dead_mut_ascending(_, _, _, _, _)
remove_dead_mut_ascending(objs0, table0, dead, k, removed0) ==
    Bind(<<objs0, table0, removed0, IF k = 0 THEN 0 ELSE dead[Len(dead) - k + 1]>>,
         LAMBDA b :
            IF k = 0
            THEN [objects |-> b[1], table |-> b[2], panic |-> FALSE, removed |-> b[3]]
            ELSE IF b[4] > Len(b[1])
            THEN [objects |-> b[1], table |-> b[2], panic |-> TRUE, removed |-> b[3]]
            ELSE Bind(remove_instance(b[2], b[1][b[4]].instance_id),
                      LAMBDA r :
                         IF r.panic
                         THEN [objects |-> RemoveAt(b[1], b[4]), table |-> r.table,
                               panic |-> TRUE, removed |-> b[3]]
                         ELSE remove_dead_mut_ascending(RemoveAt(b[1], b[4]), r.table,
                                                        dead, k - 1,
                                                        b[3] \o << b[1][b[4]] >>)))

\* remove_dead that leaves the instances of the dead objects in the table.
RECURSIVE remove_dead_mut_leak(_, _, _, _, _)
remove_dead_mut_leak(objs0, table0, dead, k, removed0) ==
    Bind(<<objs0, table0, removed0>>,
         LAMBDA b :
            IF k = 0
            THEN [objects |-> b[1], table |-> b[2], panic |-> FALSE, removed |-> b[3]]
            ELSE IF dead[k] > Len(b[1])
            THEN [objects |-> b[1], table |-> b[2], panic |-> TRUE, removed |-> b[3]]
            ELSE remove_dead_mut_leak(RemoveAt(b[1], dead[k]), b[2], dead, k - 1,
                                      << b[1][dead[k]] >> \o b[3]))

\* The removal loop, from the last dead index (k = Len(dead)) to the first:
\* each dead object leaves the collection and its instance is removed.
RECURSIVE remove_dead(_, _, _, _, _)
remove_dead(objs0, table0, dead, k, removed0) ==
    Bind(<<objs0, table0, removed0>>,
         LAMBDA b :
            IF k = 0
            THEN [objects |-> b[1], table |-> b[2], panic |-> FALSE, removed |-> b[3]]
            ELSE IF dead[k] > Len(b[1])
            THEN [objects |-> b[1], table |-> b[2], panic |-> TRUE, removed |-> b[3]]
            ELSE Bind(remove_instance(b[2], b[1][dead[k]].instance_id),
                      LAMBDA r :
                         IF r.panic
                         THEN [objects |-> RemoveAt(b[1], dead[k]), table |-> r.table,
                               panic |-> TRUE, removed |-> b[3]]
                         ELSE remove_dead(RemoveAt(b[1], dead[k]), r.table, dead, k - 1,
                                          << b[1][dead[k]] >> \o b[3])))

\* spawn_resolution that never spawns.
spawn_resolution_mut_never(spawn_event, cleaned, draws) ==
    [objects |-> cleaned.objects, table |-> cleaned.table, panic |-> cleaned.panic]

\* spawn_resolution that spawns in every frame.
spawn_resolution_mut_always(spawn_event, cleaned, draws) ==
    IF ~cleaned.panic
    THEN spawn_obstacles(cleaned.objects, cleaned.table, draws)
    ELSE [objects |-> cleaned.objects, table |-> cleaned.table, panic |-> cleaned.panic]

\* `if spawn_event { spawn_obstacles(.., 2) }`, on what the removal loop left
\* (nothing is reached after a panic of the removal).
spawn_resolution(spawn_event, cleaned, draws) ==
    IF spawn_event /\ ~cleaned.panic
    THEN spawn_obstacles(cleaned.objects, cleaned.table, draws)
    ELSE [objects |-> cleaned.objects, table |-> cleaned.table, panic |-> cleaned.panic]

\* Everything between `if !game_over {` and its closing brace: ship control,
\* firing, 'object_loop, removal of the dead, spawning.
simulate(objs, table, cursor, shoot, delay, sc, draws) ==
    IF objs = << >> \/ ~is_ship(objs[1])
    THEN [objects |-> objs, table |-> table, shooting_delay |-> delay, score |-> sc,
          game_over |-> FALSE, panic |-> TRUE, fired |-> FALSE, removed |-> << >>,
          spawn_event |-> FALSE, scanned |-> << >>, looped |-> << >>,
          dead_object_indices |-> << >>, hits |-> {}]
    ELSE
    LET delay1 == decrement_delay(delay)
        fires == shoot /\ delay1 <= 0
        delay2 == IF fires THEN shooting_delay_max ELSE delay1
        homed == [objs EXCEPT ![1].motion = VAdd(@, homing_force(objs[1].position, cursor))]
    IN Bind(IF fires THEN fire_shots(homed, table, cursor, 0)
            ELSE [objects |-> homed, table |-> table, panic |-> FALSE],
       LAMBDA fired :
       Bind(object_loop([objects |-> fired.objects, dead_object_indices |-> << >>,
                         score |-> sc, spawn_event |-> FALSE, game_over |-> FALSE,
                         hits |-> {}], 1),
       LAMBDA looped :
       Bind(Sort(looped.dead_object_indices),
       LAMBDA dead :
       Bind(remove_dead(looped.objects, fired.table, dead, Len(dead), << >>),
       LAMBDA cleaned :
       Bind(spawn_resolution(looped.spawn_event, cleaned, draws),
       LAMBDA spawned :
          [objects |-> spawned.objects, table |-> spawned.table,
           shooting_delay |-> delay2, score |-> looped.score,
           game_over |-> looped.game_over, panic |-> fired.panic \/ spawned.panic,
           fired |-> fires, removed |-> cleaned.removed,
           spawn_event |-> looped.spawn_event, scanned |-> fired.objects,
           looped |-> looped.objects, dead_object_indices |-> dead,
           hits |-> looped.hits])))))

\* frame_outcome without the test of game_over.
frame_outcome_mut_always(over, objs, table, cursor, shoot, delay, sc, draws) ==
    simulate(objs, table, cursor, shoot, delay, sc, draws)

\* `if !game_over { .. }`: the simulation, or nothing when the game is over.
frame_outcome(over, objs, table, cursor, shoot, delay, sc, draws) ==
    IF over
    THEN [objects |-> objs, table |-> table, shooting_delay |-> delay, score |-> sc,
          game_over |-> TRUE, panic |-> FALSE, fired |-> FALSE, removed |-> << >>,
          spawn_event |-> FALSE, scanned |-> << >>, looped |-> << >>,
          dead_object_indices |-> << >>, hits |-> {}]
    ELSE simulate(objs, table, cursor, shoot, delay, sc, draws)

\* instance_of with the Ship's scale for every object.
instance_of_mut_ship_scale(object) ==
    [x |-> object.position.x, y |-> object.position.y, scale |-> SHIP_SCALE,
     shade_sensitivity |-> IF is_shot(object) THEN 0 ELSE 3,
     nan |-> object.position.nan]

\* The instance the refresh loop writes for an object.
instance_of(object) ==
    [x |-> object.position.x, y |-> object.position.y, scale |-> scale(object),
     shade_sensitivity |-> IF is_shot(object) THEN 0 ELSE 3,
     nan |-> object.position.nan]

\* The refresh loop (lines 1082-1134) from object i on: every object but the
\* Ship of a game that is over gets its instance written.
RECURSIVE refresh(_, _, _, _)
refresh(objs, table, over, i) ==
    IF i > Len(objs) THEN [table |-> table, panic |-> FALSE]
    ELSE IF is_ship(objs[i]) /\ over THEN refresh(objs, table, over, i + 1)
    ELSE Bind(write_instance(table, objs[i].instance_id, instance_of(objs[i])),
              LAMBDA r : IF r.panic THEN r ELSE refresh(objs, r.table, over, i + 1))

(***************************************************************************)
(* SpecTable: a client that calls the table's operations in any order,     *)
(* with any handle, from the moment the table is constructed.              *)
(***************************************************************************)
\* The instance records the client writes.
InstanceChoices == {Zeroed, [x |-> 100, y |-> -100, scale |-> 200,
                             shade_sensitivity |-> 3, nan |-> FALSE]}

\* The handles the client uses: issued ones, and indices past any array.
HandleChoices == {InstanceID(m, i) : m \in WhichMesh, i \in 0..MaxSlots}

\* The number of slots of the table, over all meshes.
TotalSlots(table) ==
    LET n(m) == IF m \in DOMAIN table THEN Len(table[m].instances) ELSE 0
    IN n("Obstacle") + n("Ship") + n("Shot")

\* The frame log before any frame.  since_fired counts the simulated frames
\* since the last one that fired, the firing one excluded; it stops at
\* shooting_delay_max, which also stands for "no volley yet".
NoFrame == [simulated |-> FALSE, fired |-> FALSE, removed |-> << >>,
            spawn_event |-> FALSE, scanned |-> << >>, looped |-> << >>,
            dead_object_indices |-> << >>, hits |-> {},
            since_fired |-> shooting_delay_max]

NoOp == [op |-> "none", mesh |-> "Ship", index |-> 0, stale |-> FALSE,
         instance |-> Zeroed]

InitTable ==
    /\ instance_table = EmptyTable
    /\ objects = << >>
    /\ cursor_position = [x |-> 0, y |-> 0]
    /\ shooting = FALSE
    /\ shooting_delay = 0
    /\ game_over = FALSE
    /\ score = 0
    /\ panicked = FALSE
    /\ last = NoOp
    /\ live = {}
    /\ freed = {}
    /\ driver = "table_client"
    /\ frame_log = NoFrame
    /\ frames = 0
    /\ thrusts = 0

\* One step of the construction loop over [Obstacle, Ship, Shot].
TableConstruct ==
    /\ driver = "table_client"
    /\ ~panicked
    /\ \E i \in 1..Len(MeshOrder) :
          /\ MeshOrder[i] \notin DOMAIN instance_table
          /\ \A j \in 1..(i - 1) : MeshOrder[j] \in DOMAIN instance_table
          /\ instance_table' = TableInsertMesh(instance_table, MeshOrder[i])
          /\ last' = [op |-> "construct", mesh |-> MeshOrder[i], index |-> 0,
                      stale |-> FALSE, instance |-> Zeroed]
    /\ UNCHANGED <<panicked, live, freed>>
    /\ UNCHANGED gameVars

\* allocate: insert_new_instance(mesh, instance).
TableAllocate(mesh, instance) ==
    /\ driver = "table_client"
    /\ ~panicked
    /\ \E r \in {insert_new_instance(instance_table, mesh, instance)} :
          /\ TotalSlots(r.table) <= MaxSlots
          /\ instance_table' = r.table
          /\ panicked' = r.panic
          /\ live' = IF r.panic THEN live ELSE live \cup {r.id}
          /\ last' = [op |-> "allocate", mesh |-> mesh,
                      index |-> r.id.instance_index, stale |-> FALSE,
                      instance |-> instance]
    /\ UNCHANGED freed
    /\ UNCHANGED gameVars

\* Whether a use of handle h can be a stale one or a current one: a copy of
\* a handle that was removed is stale; the handle of a live instance, or one
\* the table never issued, is not.
StaleUse(h, stale) ==
    /\ stale => h \in freed
    /\ ~stale => (h \in live \/ h \notin freed)

\* free: remove_instance(h).
TableFree(h, stale) ==
    /\ driver = "table_client"
    /\ ~panicked
    /\ StaleUse(h, stale)
    /\ \E r \in {remove_instance(instance_table, h)} :
          /\ instance_table' = r.table
          /\ panicked' = r.panic
          /\ live' = IF r.panic THEN live ELSE live \ {h}
          /\ freed' = IF r.panic THEN freed ELSE freed \cup {h}
          /\ last' = [op |-> "free", mesh |-> h.mesh, index |-> h.instance_index,
                      stale |-> stale, instance |-> Zeroed]
    /\ UNCHANGED gameVars

\* update: the instance write through handle h.
TableUpdate(h, instance, stale) ==
    /\ driver = "table_client"
    /\ ~panicked
    /\ StaleUse(h, stale)
    /\ \E r \in {write_instance(instance_table, h, instance)} :
          /\ instance_table' = r.table
          /\ panicked' = r.panic
          /\ last' = [op |-> "update", mesh |-> h.mesh, index |-> h.instance_index,
                      stale |-> stale, instance |-> instance]
    /\ UNCHANGED <<live, freed>>
    /\ UNCHANGED gameVars

NextTable ==
    \/ TableConstruct
    \/ \E m \in WhichMesh, r \in InstanceChoices : TableAllocate(m, r)
    \/ \E h \in HandleChoices, s \in BOOLEAN : TableFree(h, s)
    \/ \E h \in HandleChoices, r \in InstanceChoices, s \in BOOLEAN : TableUpdate(h, r, s)

SpecTable == InitTable /\ [][NextTable]_vars

(***************************************************************************)
(* Spec: the game, from the state the program is in when the event loop    *)
(* starts (line 787).  The player acts before the first frame and while    *)
(* the game is over; between these the inputs stay as they are.            *)
(***************************************************************************)
\* The cursor positions CursorMoved brings: on the first spawned Obstacle of
\* either draw pattern, and on the path of a moving one.
CursorChoices == {Vec(SPAWN_X, 0), Vec(6000, 0)}

\* The table once the construction loop has run for the three meshes.
ConstructedTable == [m \in WhichMesh |-> EmptyArray]

GameOp(op) == [op |-> op, mesh |-> "Ship", index |-> 0, stale |-> FALSE,
               instance |-> Zeroed]

\* The handles the objects of a collection hold.
HandlesOf(objs) == {objs[i].instance_id : i \in 1..Len(objs)}

PlayerActs == frames = 0 \/ game_over

Init ==
    /\ \E draws \in SpawnDraws(INITIAL_OBSTACLES) :
          \E r \in {init_objects(ConstructedTable, draws)} :
             /\ objects = r.objects
             /\ instance_table = r.table
    /\ cursor_position = Vec(0, 0)
    /\ shooting = FALSE
    /\ shooting_delay = 0
    /\ game_over = FALSE
    /\ score = 0
    /\ panicked = FALSE
    /\ last = NoOp
    /\ live = HandlesOf(objects)
    /\ freed = {}
    /\ driver = "event_loop"
    /\ frame_log = NoFrame
    /\ frames = 0
    /\ thrusts = 0

\* WindowEvent::CursorMoved
CursorMoved(c) ==
    /\ driver = "event_loop"
    /\ ~panicked
    /\ PlayerActs
    /\ cursor_position' = c
    /\ last' = GameOp("cursor")
    /\ UNCHANGED <<instance_table, objects, shooting, shooting_delay, game_over, score,
                   panicked, live, freed, driver, frame_log, frames, thrusts>>

\* Right button pressed while the game runs: the thrust.
Thrust ==
    /\ driver = "event_loop"
    /\ ~panicked
    /\ PlayerActs
    /\ ~game_over
    /\ thrusts < MaxThrusts
    /\ thrusts' = thrusts + 1
    /\ IF objects # << >> /\ is_ship(objects[1])
       THEN /\ objects' = [objects EXCEPT ![1].motion =
                             VAdd(@, thrust_force(objects[1].position, cursor_position))]
            /\ UNCHANGED panicked
       ELSE /\ panicked' = TRUE
            /\ UNCHANGED objects
    /\ last' = GameOp("thrust")
    /\ UNCHANGED <<instance_table, cursor_position, shooting, shooting_delay, game_over,
                   score, live, freed, driver, frame_log, frames>>

\* Left button pressed or released while the game runs.
FireButton(pressed) ==
    /\ driver = "event_loop"
    /\ ~panicked
    /\ PlayerActs
    /\ ~game_over
    /\ shooting' = pressed
    /\ last' = GameOp("fire_button")
    /\ UNCHANGED <<instance_table, objects, cursor_position, shooting_delay, game_over,
                   score, panicked, live, freed, driver, frame_log, frames, thrusts>>

\* remove_all that leaves the instances of the Shots.
RECURSIVE remove_all_mut_keep_shots(_, _, _)
remove_all_mut_keep_shots(objs, table, i) ==
    IF i > Len(objs) THEN [table |-> table, panic |-> FALSE]
    ELSE IF is_shot(objs[i]) THEN remove_all_mut_keep_shots(objs, table, i + 1)
    ELSE Bind(remove_instance(table, objs[i].instance_id),
              LAMBDA r : IF r.panic THEN r
                         ELSE remove_all_mut_keep_shots(objs, r.table, i + 1))

\* The instances of all objects removed, in collection order.
RECURSIVE remove_all(_, _, _)
remove_all(objs, table, i) ==
    IF i > Len(objs) THEN [table |-> table, panic |-> FALSE]
    ELSE Bind(remove_instance(table, objs[i].instance_id),
              LAMBDA r : IF r.panic THEN r ELSE remove_all(objs, r.table, i + 1))

\* Left button pressed while the game is over: the restart.
Restart ==
    /\ driver = "event_loop"
    /\ ~panicked
    /\ game_over
    /\ \E draws \in SpawnDraws(INITIAL_OBSTACLES) :
          \E cleared \in {remove_all(objects, instance_table, 1)} :
          \E r \in {IF cleared.panic
                    THEN [objects |-> objects, table |-> cleared.table, panic |-> TRUE]
                    ELSE init_objects(cleared.table, draws)} :
             /\ objects' = r.objects
             /\ instance_table' = r.table
             /\ panicked' = r.panic
    /\ game_over' = FALSE
    /\ score' = 0
    /\ last' = GameOp("restart")
    /\ live' = HandlesOf(objects')
    /\ UNCHANGED <<cursor_position, shooting, shooting_delay, freed, driver, frame_log,
                   frames, thrusts>>

\* A right button press or a left button release while the game is over:
\* no arm of the match takes it.
IgnoredInput ==
    /\ driver = "event_loop"
    /\ ~panicked
    /\ game_over
    /\ last' = GameOp("ignored")
    /\ UNCHANGED <<instance_table, objects, cursor_position, shooting, shooting_delay,
                   game_over, score, panicked, live, freed, driver, frame_log, frames, thrusts>>

\* Event::MainEventsCleared: the simulation unless the game is over, then
\* the refresh of the instances.
Frame ==
    /\ driver = "event_loop"
    /\ ~panicked
    /\ game_over \/ frames < MaxFrames
    /\ \E draws \in SpawnDraws(SPAWNED_OBSTACLES) :
          \E sim \in {frame_outcome(game_over, objects, instance_table, cursor_position,
                                    shooting, shooting_delay, score, draws)} :
          \E ref \in {IF sim.panic THEN [table |-> sim.table, panic |-> TRUE]
                      ELSE refresh(sim.objects, sim.table, sim.game_over, 1)} :
             /\ objects' = sim.objects
             /\ instance_table' = ref.table
             /\ shooting_delay' = sim.shooting_delay
             /\ score' = sim.score
             /\ game_over' = sim.game_over
             /\ panicked' = ref.panic
             /\ frame_log' = [simulated |-> ~game_over, fired |-> sim.fired,
                              removed |-> sim.removed, spawn_event |-> sim.spawn_event,
                              scanned |-> sim.scanned, looped |-> sim.looped,
                              dead_object_indices |-> sim.dead_object_indices,
                              hits |-> sim.hits,
                              since_fired |->
                                  IF sim.fired THEN 0
                                  ELSE IF game_over
                                           \/ frame_log.since_fired >= shooting_delay_max
                                  THEN frame_log.since_fired
                                  ELSE frame_log.since_fired + 1]
    /\ frames' = IF game_over THEN frames ELSE frames + 1
    /\ last' = GameOp("frame")
    /\ live' = HandlesOf(objects')
    /\ UNCHANGED <<cursor_position, shooting, freed, driver, thrusts>>

Next ==
    \/ \E c \in CursorChoices : CursorMoved(c)
    \/ Thrust
    \/ \E pressed \in BOOLEAN : FireButton(pressed)
    \/ Restart
    \/ IgnoredInput
    \/ Frame

Spec == Init /\ [][Next]_vars

\* Both drivers of the table: the game and the table client.
InitAll == Init \/ InitTable
NextAll == Next \/ NextTable
SpecAll == InitAll /\ [][NextAll]_vars

(***************************************************************************)
(* SpecScenario: the event loop started on the objects of the game-over    *)
(* scenario instead of init_objects' five Obstacles: the Ship at (0, 0)    *)
(* and one Obstacle at (1.05, 0) with scale 0.03 and motion (-0.01, 0).    *)
(* Everything else is as in Spec: the cursor is at (0, 0) until a          *)
(* CursorMoved arrives.                                                    *)
(***************************************************************************)
\* The Obstacle of the scenario, as the outcome of the calls of rand.
ScenarioDraws == << Draw(0, 300, -100, 0) >>

InitScenario ==
    /\ \E ship \in {insert_new_instance(ConstructedTable, "Ship", Zeroed)} :
          \E r \in {spawn_obstacles(<< Ship(Vec(0, 0), Vec(0, 0), ship.id) >>,
                                    ship.table, ScenarioDraws)} :
             /\ objects = r.objects
             /\ instance_table = r.table
    /\ cursor_position = Vec(0, 0)
    /\ shooting = FALSE
    /\ shooting_delay = 0
    /\ game_over = FALSE
    /\ score = 0
    /\ panicked = FALSE
    /\ last = NoOp
    /\ live = HandlesOf(objects)
    /\ freed = {}
    /\ driver = "event_loop"
    /\ frame_log = NoFrame
    /\ frames = 0
    /\ thrusts = 0

SpecScenario == InitScenario /\ [][Next]_vars

(***************************************************************************)
(* SpecTwin: the games of Spec and, beside them, the games that start on   *)
(* a draw with two Obstacles at the same distance above and below the line *)
(* from the Ship to the cursor at (1.05, 0), and nothing between: every    *)
(* volley hits both alike, so both reach life 0 in one frame.              *)
(***************************************************************************)
\* The outcome of the calls of rand of init_objects in such a game.
TwinDraws ==
    << Draw(100, 399, 0, 0), Draw(-100, 399, 0, 0), Draw(2000, 200, -30, -10),
       Draw(-2500, 300, 4, 9), Draw(3999, 250, -12, 9) >>

InitTwin ==
    /\ \E r \in {init_objects(ConstructedTable, TwinDraws)} :
          /\ objects = r.objects
          /\ instance_table = r.table
    /\ cursor_position = Vec(0, 0)
    /\ shooting = FALSE
    /\ shooting_delay = 0
    /\ game_over = FALSE
    /\ score = 0
    /\ panicked = FALSE
    /\ last = NoOp
    /\ live = HandlesOf(objects)
    /\ freed = {}
    /\ driver = "event_loop"
    /\ frame_log = NoFrame
    /\ frames = 0
    /\ thrusts = 0

SpecTwin == (Init \/ InitTwin) /\ [][Next]_vars

(***************************************************************************)
(* SpecPlay: the first frames of a game in which the player presses and    *)
(* releases the fire button between any two frames, with the cursor left   *)
(* where it is or moved close to the Ship before the first frame.          *)
(***************************************************************************)
\* The most frames of SpecPlay.
MaxPlayFrames == 28

\* A cursor position the Shots reach, and turn around, next to the Ship.
NearCursorChoices == {Vec(300, 0)}

\* Left button pressed or released while the game runs, at any moment.
FireButtonAnyTime(pressed) ==
    /\ driver = "event_loop"
    /\ ~panicked
    /\ ~game_over
    /\ shooting' = pressed
    /\ last' = GameOp("fire_button")
    /\ UNCHANGED <<instance_table, objects, cursor_position, shooting_delay, game_over,
                   score, panicked, live, freed, driver, frame_log, frames, thrusts>>

\* Event::MainEventsCleared within the frames SpecPlay follows.
PlayFrame ==
    /\ frames < MaxPlayFrames
    /\ Frame

NextPlay ==
    \/ \E c \in NearCursorChoices : CursorMoved(c)
    \/ \E pressed \in BOOLEAN : FireButtonAnyTime(pressed)
    \/ PlayFrame

SpecPlay == Init /\ [][NextPlay]_vars

(***************************************************************************)
(* The claims.                                                             *)
(***************************************************************************)
Meshes == DOMAIN instance_table

Instances(m) == instance_table[m].instances
Unused(m) == instance_table[m].unused_instances

\* The last step was the table operation op, and it returned.
Did(op) == last.op = op /\ ~panicked

LiveCountBounded ==
    \A m \in Meshes : Len(Instances(m)) >= Cardinality({h \in live : h.mesh = m})

NoSharedHandle == driver = "event_loop" => Cardinality(live) = Len(objects)

AllocateReturnsFreshHandle ==
    (last'.op = "allocate" /\ ~panicked')
        => InstanceID(last'.mesh, last'.index) \notin live

\* C1: every handle insert_new_instance returns differs from every handle
\* that is live at the call (so no two objects of the game hold the same
\* handle), and the array of each mesh is never shorter than the number of
\* live handles of that mesh.
C1_UniqueLiveHandles ==
    /\ [](LiveCountBounded /\ NoSharedHandle)
    /\ [][AllocateReturnsFreshHandle]_vars

\* C1 witness: an allocation returned the slot of a handle removed before,
\* while another handle is live.
C1_Witness ==
    /\ Did("allocate")
    /\ InstanceID(last.mesh, last.index) \in freed
    /\ Cardinality(live) >= 2

\* C2: while any slot of a mesh is marked unused, no step makes the array of
\* that mesh longer, and an allocation for that mesh returns a slot that was
\* marked unused.
C2_ReuseBeforeGrowth ==
    [][\A m \in Meshes :
          (\E k \in 1..Len(Unused(m)) : Unused(m)[k])
              => /\ Len(instance_table'[m].instances) = Len(Instances(m))
                 /\ (last'.op = "allocate" /\ last'.mesh = m /\ ~panicked')
                        => Unused(m)[last'.index + 1]]_vars

\* C2 witness: a handle was removed and the next allocation for its mesh
\* returned its slot, with the array no longer than before.
C2_Witness ==
    /\ Did("allocate")
    /\ InstanceID(last.mesh, last.index) \in freed
    /\ last.index + 1 < Len(Instances(last.mesh))

\* C3: every slot marked unused holds the zeroed instance (scale 0).
C3_FreeSlotsZeroed ==
    \A m \in Meshes :
        \A k \in 1..Len(Unused(m)) : Unused(m)[k] => Instances(m)[k] = Zeroed

\* C3 witness: a frame refreshed the instances while a slot freed by an
\* earlier frame was still marked unused.
C3_Witness ==
    /\ last.op = "frame"
    /\ frame_log.removed = << >>
    /\ \E k \in 1..Len(Unused("Shot")) : Unused("Shot")[k]

\* C4: for every mesh the instances and the unused marks have the same
\* length.
C4_SameLength ==
    \A m \in Meshes : Len(Instances(m)) = Len(Unused(m))

\* C4 witness: an array has grown to two slots and one of them was freed.
C4_Witness ==
    \E m \in Meshes : Len(Instances(m)) >= 2 /\ \E k \in 1..Len(Unused(m)) : Unused(m)[k]

\* C5: no step shortens the array of a mesh, and a step that removes an
\* instance (a free, a frame, a restart) leaves every array as long as it
\* was or longer, each remaining live handle at its position.
C5_NeverShrinks ==
    [][\A m \in Meshes :
          /\ m \in DOMAIN instance_table'
          /\ Len(instance_table'[m].instances) >= Len(Instances(m))
          /\ Len(instance_table'[m].unused_instances) >= Len(Unused(m))
          /\ last'.op = "free" =>
                /\ Len(instance_table'[m].instances) = Len(Instances(m))
                /\ \A k \in 1..Len(Instances(m)) :
                      (m # last'.mesh \/ k # last'.index + 1)
                          => /\ instance_table'[m].instances[k] = Instances(m)[k]
                             /\ instance_table'[m].unused_instances[k] = Unused(m)[k]]_vars

\* C5 witness: a handle below the end of its array was removed.
C5_Witness ==
    /\ Did("free")
    /\ last.index + 1 < Len(Instances(last.mesh))
    /\ \E k \in 1..Len(Unused(last.mesh)) : ~Unused(last.mesh)[k]

\* C6: an allocation returns the lowest slot marked unused, clears its mark
\* and stores the instance there, the length unchanged; with no slot unused
\* it appends the instance with the mark false and returns the old length.
C6_AllocateLowestFree ==
    [][(last'.op = "allocate" /\ ~panicked') =>
          LET m == last'.mesh
              k == last'.index + 1
              after == instance_table'[m]
          IN /\ after.instances[k] = last'.instance
             /\ ~after.unused_instances[k]
             /\ IF \E j \in 1..Len(Unused(m)) : Unused(m)[j]
                THEN /\ Unused(m)[k]
                     /\ \A j \in 1..(k - 1) : ~Unused(m)[j]
                     /\ Len(after.instances) = Len(Instances(m))
                ELSE /\ k = Len(Instances(m)) + 1
                     /\ Len(after.instances) = k
                     /\ Len(after.unused_instances) = k]_vars

\* C6 witness: an allocation returned slot 0 while a higher slot of the
\* mesh was unused too.
C6_Witness ==
    /\ Did("allocate")
    /\ last.index = 0
    /\ \E k \in 2..Len(Unused(last.mesh)) : Unused(last.mesh)[k]

InvalidHandle(mesh, index) ==
    mesh \notin Meshes \/ index >= Len(Instances(mesh))

\* C7: a free with a mesh absent from the table or an index out of bounds
\* panics and leaves the table as it was.
C7_InvalidFreePanics ==
    [][(last'.op = "free" /\ InvalidHandle(last'.mesh, last'.index))
          => panicked' /\ instance_table' = instance_table]_vars

\* C7 witness: a free with an index out of bounds of a mesh that holds a
\* live instance.
C7_Witness ==
    /\ last.op = "free"
    /\ panicked
    /\ last.mesh \in Meshes
    /\ last.index >= Len(Instances(last.mesh))
    /\ \E h \in live : h.mesh = last.mesh

\* C8 as stated: a free or an instance write through a stale handle panics
\* instead of modifying the slot.
C8_StaleUseIsFatal ==
    [][(last'.op \in {"free", "update"} /\ last'.stale)
          => panicked' /\ instance_table' = instance_table]_vars

\* C8 amended: a free or an instance write panics exactly when the mesh of
\* its handle is absent from the table or its index is out of bounds; through
\* a stale handle that is in bounds the free zeroes the slot and marks it
\* unused and the write stores its instance, as through a live handle.
C8_OnlyInvalidUseIsFatal ==
    [][last'.op \in {"free", "update"} =>
          /\ panicked' <=> InvalidHandle(last'.mesh, last'.index)
          /\ panicked' => instance_table' = instance_table
          /\ ~panicked' =>
                LET slot == last'.index + 1
                    after == instance_table'[last'.mesh]
                IN IF last'.op = "free"
                   THEN after.instances[slot] = Zeroed /\ after.unused_instances[slot]
                   ELSE /\ after.instances[slot] = last'.instance
                        /\ after.unused_instances[slot] = Unused(last'.mesh)[slot]]_vars

\* C8 witness: a write through a stale handle, whose slot had been issued
\* again, returned and replaced the instance of the slot's new owner.
C8_Witness ==
    /\ Did("update")
    /\ last.stale
    /\ InstanceID(last.mesh, last.index) \in live
    /\ last.instance # Zeroed
    /\ Instances(last.mesh)[last.index + 1] = last.instance

Obstacles(objs) == {i \in 1..Len(objs) : is_obstacle(objs[i])}

\* C9: the score changes only in a frame, where it grows by the number of
\* Obstacles the frame removed, and in a restart, which sets it to 0.
C9_ScoreCountsObstacleDeaths ==
    [][/\ last'.op = "restart" => score' = 0
       /\ last'.op = "frame" =>
             score' = score + Cardinality(Obstacles(frame_log'.removed))
       /\ last'.op \notin {"restart", "frame"} => score' = score]_vars

\* C9 witness: a frame removed an Obstacle (and a Shot with it).
C9_Witness ==
    /\ last.op = "frame"
    /\ Obstacles(frame_log.removed) # {}
    /\ Len(frame_log.removed) > Cardinality(Obstacles(frame_log.removed))
    /\ score >= 1

\* C10: once the game is over, a frame or an input that is no restart leaves
\* the objects, the unused marks, the score and the cooldown as they are and
\* the game over; only a restart clears game_over.
C10_GameOverFreezes ==
    [][(game_over /\ last'.op # "restart") =>
          /\ game_over'
          /\ objects' = objects
          /\ score' = score
          /\ shooting_delay' = shooting_delay
          /\ \A m \in Meshes :
                instance_table'[m].unused_instances = Unused(m)]_vars

\* C10 witness: a frame passed while the game was over, with the fire
\* button held and Shots in flight.
C10_Witness ==
    /\ game_over
    /\ last.op = "frame"
    /\ ~frame_log.simulated
    /\ shooting
    /\ \E i \in 1..Len(objects) : is_shot(objects[i])

\* The run is the scenario's: the Ship, then the scenario's Obstacle, and no
\* thrust has moved the Ship.
InScenario ==
    /\ Len(objects) >= 2
    /\ is_ship(objects[1])
    /\ is_obstacle(objects[2])
    /\ objects[2].scale = ScenarioDraws[1].scale
    /\ objects[2].motion = ScenarioDraws[1].motion
    /\ thrusts = 0

\* The scenario's Obstacle has its centre nearer to (0, 0), where the Ship
\* was put, than the sum of the two scales.
ObstacleReachedShipPlace ==
    Magnitude2(objects[2].position)
        < (SHIP_SCALE + objects[2].scale) * (SHIP_SCALE + objects[2].scale)

SimulatedFrame == last.op = "frame" /\ frame_log.simulated

\* The indices of the objects the frame's loop scanned.
Scanned == 1..Len(frame_log.scanned)

\* The number of objects against which the scan of object i took an arm.
HitsOf(i) == Cardinality({h \in frame_log.hits : h[1] = i})

Range(seq) == {seq[k] : k \in 1..Len(seq)}

\* C12: an Obstacle with life L for which n Shots satisfied the collision
\* test in its scan has life max(L - n, 0) after the loop, and it is among the
\* dead, and removed, exactly when that life is 0.
C12_DamageAccumulates ==
    SimulatedFrame =>
        \A i \in Scanned :
            is_obstacle(frame_log.scanned[i]) =>
                LET L == frame_log.scanned[i].life
                    n == HitsOf(i)
                    after == frame_log.looped[i]
                IN /\ after.life = IF L - n > 0 THEN L - n ELSE 0
                   /\ (after.life = 0) <=> (i \in Range(frame_log.dead_object_indices))
                   /\ (after.life = 0) <=> (after \in Range(frame_log.removed))

\* C12 witness: two Shots hit an Obstacle in one frame and it lost 2 life.
C12_Witness ==
    /\ SimulatedFrame
    /\ \E i \in Scanned :
          /\ is_obstacle(frame_log.scanned[i])
          /\ HitsOf(i) = 2
          /\ frame_log.scanned[i].life >= 2
          /\ frame_log.looped[i].life = frame_log.scanned[i].life - 2

\* The radius the claim gives each kind of entity.
Radius(object) ==
    IF is_ship(object) THEN SHIP_SCALE
    ELSE IF is_shot(object) THEN SHOT_SCALE
    ELSE object.scale

\* The squared centre distance of two objects whose positions are numbers.
Distance2(a, b) ==
    (a.position.x - b.position.x) * (a.position.x - b.position.x)
        + (a.position.y - b.position.y) * (a.position.y - b.position.y)

Closer(a, b) ==
    /\ ~a.position.nan
    /\ ~b.position.nan
    /\ Distance2(a, b) < (Radius(a) + Radius(b)) * (Radius(a) + Radius(b))

\* C13: two objects collide exactly when their centre distance is less than
\* the sum of their radii (at equal distance they do not), and the test
\* answers the same for (a, b) and (b, a).
C13_CollideIffCloser ==
    \A i, j \in 1..Len(objects) :
        i # j =>
            /\ collide_with(objects[i], objects[j]) <=> Closer(objects[i], objects[j])
            /\ collide_with(objects[i], objects[j]) <=> collide_with(objects[j], objects[i])

\* C13 witness: the Ship and an Obstacle at a distance of exactly the sum of
\* their radii, which do not collide.
C13_Witness ==
    \E j \in 2..Len(objects) :
        /\ is_ship(objects[1])
        /\ is_obstacle(objects[j])
        /\ ~objects[1].position.nan
        /\ Distance2(objects[1], objects[j])
              = (SHIP_SCALE + objects[j].scale) * (SHIP_SCALE + objects[j].scale)
        /\ ~collide_with(objects[1], objects[j])
        /\ ~game_over

\* The Obstacles the frame's loop moved: scanned and not marked dead.
MovedObstacles ==
    {i \in Scanned : /\ is_obstacle(frame_log.scanned[i])
                     /\ i \notin Range(frame_log.dead_object_indices)}

\* Where the motion step takes the Obstacle scanned at index i before the
\* bounds are applied.
Stepped(i) ==
    [x |-> frame_log.scanned[i].position.x + frame_log.scanned[i].motion.x,
     y |-> frame_log.scanned[i].position.y + frame_log.scanned[i].motion.y]

Bottom(i) == -Y_LIMIT + frame_log.scanned[i].scale
Top(i) == Y_LIMIT - frame_log.scanned[i].scale

\* C14: after the motion step of an Obstacle, an x beyond 1.1 is replaced by
\* -1.1 and an x at or beyond -1.1 by 1.1, the motion unchanged; a y beyond
\* the bottom margin -0.5 + scale or the top margin 0.5 - scale is replaced
\* by that margin and the vertical motion changes sign; otherwise the
\* Obstacle is where the step took it, with the motion it had.
C14_WrapAndBounce ==
    SimulatedFrame =>
        \A i \in MovedObstacles :
            LET before == frame_log.scanned[i]
                after == frame_log.looped[i]
                p == Stepped(i)
            IN /\ after.position.x = IF p.x > X_LIMIT THEN -X_LIMIT
                                     ELSE IF p.x <= -X_LIMIT THEN X_LIMIT
                                     ELSE p.x
               /\ after.motion.x = before.motion.x
               /\ IF p.y < Bottom(i)
                  THEN after.position.y = Bottom(i) /\ after.motion.y = -before.motion.y
                  ELSE IF p.y > Top(i)
                  THEN after.position.y = Top(i) /\ after.motion.y = -before.motion.y
                  ELSE after.position.y = p.y /\ after.motion.y = before.motion.y

\* C14 witness: an Obstacle moving down stepped below its bottom margin and
\* is on the margin, moving up.
C14_Witness ==
    /\ SimulatedFrame
    /\ \E i \in MovedObstacles :
          /\ Stepped(i).y < Bottom(i)
          /\ frame_log.scanned[i].motion.y < 0
          /\ frame_log.looped[i].position.y = Bottom(i)
          /\ frame_log.looped[i].motion.y > 0

\* The handles of mesh m whose slot is not marked unused, after the step.
UsedAfter(m) ==
    {InstanceID(m, k - 1) : k \in {j \in 1..Len(instance_table'[m].unused_instances) :
                                      ~instance_table'[m].unused_instances[j]}}

\* C15: a restart leaves the initial setup: the Ship at index 0, at (0, 0)
\* with zero motion, then 5 Obstacles with life 21 and nothing else; score 0
\* and game_over false; the slots in use are exactly those of the new
\* objects, so every slot of the old collection was freed and every Shot
\* slot is marked unused.
C15_RestartGivesInitialSetup ==
    [][last'.op = "restart" =>
          /\ ~panicked'
          /\ Len(objects') = 1 + INITIAL_OBSTACLES
          /\ objects'[1] = Ship(Vec(0, 0), Vec(0, 0), objects'[1].instance_id)
          /\ \A i \in 2..Len(objects') :
                is_obstacle(objects'[i]) /\ objects'[i].life = OBSTACLE_LIFE
          /\ score' = 0
          /\ ~game_over'
          /\ \A m \in Meshes : UsedAfter(m) = {h \in HandlesOf(objects') : h.mesh = m}
          /\ UsedAfter("Shot") = {}]_vars

\* C15 witness: a restart of a game that had Shots and more than
\* 5 Obstacles; their slots are unused now.
C15_Witness ==
    /\ last.op = "restart"
    /\ ~game_over
    /\ Len(Unused("Shot")) >= 2
    /\ \A k \in 1..Len(Unused("Shot")) : Unused("Shot")[k]
    /\ Len(Unused("Obstacle")) > INITIAL_OBSTACLES

\* Object k as the scan of object i sees it: the objects before i have been
\* through their iteration, the others not yet.
Seen(k, i) == IF k < i THEN frame_log.looped[k] ELSE frame_log.scanned[k]

\* The Shot at index i was marked dead because of the Obstacle at index j.
ShotDiesBy(i, j) == <<i, j>> \in frame_log.hits

\* The damage counter of the Obstacle at index j was incremented because of
\* the Shot at index i.
ObstacleDamagedBy(j, i) == <<j, i>> \in frame_log.hits

ShotObstaclePairs ==
    {p \in Scanned \X Scanned :
        is_shot(frame_log.scanned[p[1]]) /\ is_obstacle(frame_log.scanned[p[2]])}

\* C16 as stated: for every Shot and Obstacle of a frame both effects of
\* their collision occur or neither, wherever they are in the collection.
C16_BothEffectsOrNeither ==
    SimulatedFrame =>
        \A p \in ShotObstaclePairs : ShotDiesBy(p[1], p[2]) <=> ObstacleDamagedBy(p[2], p[1])

\* The one of the two objects that is scanned first is, at the scan of the
\* other, where it was at its own scan.
FirstDidNotMove(i, j) ==
    LET first == IF i < j THEN i ELSE j
    IN frame_log.looped[first].position = frame_log.scanned[first].position

\* C16 amended: the Shot is marked dead because of the Obstacle exactly when
\* the two collide at the scan of the Shot, and the Obstacle's counter is
\* incremented because of the Shot exactly when they collide at the scan of
\* the Obstacle; both occur or neither when the one scanned first did not
\* move in between.
C16_EffectsFollowEachScan ==
    SimulatedFrame =>
        \A p \in ShotObstaclePairs :
            LET i == p[1]
                j == p[2]
            IN /\ ShotDiesBy(i, j) <=> Closer(frame_log.scanned[i], Seen(j, i))
               /\ ObstacleDamagedBy(j, i) <=> Closer(frame_log.scanned[j], Seen(i, j))
               /\ FirstDidNotMove(i, j) => (ShotDiesBy(i, j) <=> ObstacleDamagedBy(j, i))

\* C16 witness: in one frame an Obstacle was damaged by a Shot that was not
\* marked dead because of it.
C16_Witness ==
    /\ SimulatedFrame
    /\ \E p \in ShotObstaclePairs :
          ObstacleDamagedBy(p[2], p[1]) /\ ~ShotDiesBy(p[1], p[2])

\* The instance record in the slot of an object's handle, in a table.
RecordOf(table, object) ==
    table[object.instance_id.mesh].instances[object.instance_id.instance_index + 1]

\* The record holds the object's position and the scale of its kind.
HoldsPositionAndScale(record, object) ==
    /\ record.x = object.position.x
    /\ record.y = object.position.y
    /\ record.nan = object.position.nan
    /\ record.scale = Radius(object)

\* C17 as stated: at the end of every frame the record of every object's
\* slot holds the object's position and scale, in every game state.
C17_RecordsFollowObjects ==
    last.op = "frame" =>
        \A i \in 1..Len(objects) :
            HoldsPositionAndScale(RecordOf(instance_table, objects[i]), objects[i])

\* C17 amended: at the end of every frame the record of every object's slot
\* holds the object's position and scale, except for the Ship of a game that
\* is over: the frame leaves the Ship's record as it was.
C17_RecordsFollowObjectsButDeadShip ==
    [][last'.op = "frame" =>
          \A i \in 1..Len(objects') :
              IF is_ship(objects'[i]) /\ game_over'
              THEN RecordOf(instance_table', objects'[i])
                       = RecordOf(instance_table, objects'[i])
              ELSE HoldsPositionAndScale(RecordOf(instance_table', objects'[i]),
                                         objects'[i])]_vars

\* C17 witness: the frame that ended the game moved the Ship and refreshed
\* the records of Obstacles and Shots, and the Ship's record holds another
\* position than the Ship.
C17_Witness ==
    /\ SimulatedFrame
    /\ game_over
    /\ ~HoldsPositionAndScale(RecordOf(instance_table, objects[1]), objects[1])
    /\ \E i \in 1..Len(objects) : is_shot(objects[i])
    /\ \E i \in 1..Len(objects) : is_obstacle(objects[i])

\* The Ship and some Obstacle of the collection satisfy the collision test.
ShipTouchesObstacle ==
    \E i, j \in 1..Len(objects) :
        is_ship(objects[i]) /\ is_obstacle(objects[j]) /\ Closer(objects[i], objects[j])

\* C18: a frame of a running game that starts with the Ship and an Obstacle
\* satisfying the collision test ends with game_over true, and game_over
\* becomes true in no other step.
C18_GameOverIffShipHit ==
    [][/\ (~game_over /\ last'.op = "frame" /\ ShipTouchesObstacle) => game_over'
       /\ (~game_over /\ game_over') => (last'.op = "frame" /\ ShipTouchesObstacle)]_vars

\* C18 witness: the frame that found the Ship colliding with an Obstacle
\* set game_over.
C18_Witness ==
    /\ SimulatedFrame
    /\ game_over
    /\ \E j \in Scanned : <<1, j>> \in frame_log.hits /\ is_obstacle(frame_log.scanned[j])

\* The elements of seq at the indices in S, in their order.
RECURSIVE Pick(_, _, _)
Pick(seq, S, k) ==
    IF k > Len(seq) THEN << >>
    ELSE (IF k \in S THEN << seq[k] >> ELSE << >>) \o Pick(seq, S, k + 1)

\* A position outside the bounds of the Shots.
Outside(position) ==
    /\ ~position.nan
    /\ \/ position.x <= -X_LIMIT
       \/ position.x > X_LIMIT
       \/ position.y <= -Y_LIMIT_SHOT
       \/ position.y > Y_LIMIT_SHOT

\* The objects the claim has marked dead in the frame: Shots that hit,
\* Obstacles whose life reached 0, Shots that left the bounds.
MarkedDead ==
    {i \in Scanned :
        \/ is_shot(frame_log.scanned[i]) /\ HitsOf(i) > 0
        \/ is_obstacle(frame_log.scanned[i]) /\ frame_log.looped[i].life = 0
        \/ is_shot(frame_log.scanned[i]) /\ Outside(frame_log.looped[i].position)}

Survivors == Pick(frame_log.looped, Scanned \ MarkedDead, 1)

\* The slots in use of mesh m.
Used(m) ==
    {InstanceID(m, k - 1) : k \in {j \in 1..Len(Unused(m)) : ~Unused(m)[j]}}

\* C19: after a frame the collection is the scanned one without the objects
\* marked dead, in the same order (followed by what the frame spawned); each
\* marked object is in the death list once and was removed, and its slot was
\* freed: the slots in use are those of the objects of the collection.
C19_ExactlyTheDeadRemoved ==
    SimulatedFrame =>
        /\ Range(frame_log.dead_object_indices) = MarkedDead
        /\ Len(frame_log.dead_object_indices) = Cardinality(MarkedDead)
        /\ frame_log.removed = Pick(frame_log.looped, MarkedDead, 1)
        /\ Len(objects) >= Len(Survivors)
        /\ SubSeq(objects, 1, Len(Survivors)) = Survivors
        /\ \A m \in Meshes : Used(m) = {h \in HandlesOf(objects) : h.mesh = m}
        /\ Cardinality(HandlesOf(objects)) = Len(objects)

\* C19 witness: a frame removed two objects or more, one of them before a
\* survivor in the collection.
C19_Witness ==
    /\ SimulatedFrame
    /\ Cardinality(MarkedDead) >= 2
    /\ \E i \in MarkedDead : \E k \in Scanned \ MarkedDead : i < k
    /\ \E i \in MarkedDead : Outside(frame_log.looped[i].position)

\* The Obstacles that died in the frame.
DeadObstacles == {i \in MarkedDead : is_obstacle(frame_log.scanned[i])}

\* What the frame appended to the survivors.
Spawned == SubSeq(objects, Len(Survivors) + 1, Len(objects))

DelayAfterDecrement ==
    IF 0 <= shooting_delay THEN shooting_delay - 1 ELSE shooting_delay

\* The Shots among the objects of a collection.
Shots(objs) == {i \in 1..Len(objs) : is_shot(objs[i])}

\* What the firing step of the frame appended to the collection.
Appended == SubSeq(frame_log'.scanned, Len(objects) + 1, Len(frame_log'.scanned))

\* C21: a frame of a running game appends exactly two Shots, each with a
\* slot of the Shot mesh that was not in use, and sets the cooldown to 13,
\* exactly when the fire button is held and the cooldown after the frame's
\* decrement is <= 0; any other frame of a running game creates no Shot and
\* leaves the cooldown as decremented.
C21_VolleyIffHeldAndReady ==
    [][(last'.op = "frame" /\ ~game_over) =>
          /\ Len(frame_log'.scanned) >= Len(objects)
          /\ \A k \in 2..Len(objects) : frame_log'.scanned[k] = objects[k]
          /\ frame_log'.fired <=> (shooting /\ DelayAfterDecrement <= 0)
          /\ IF shooting /\ DelayAfterDecrement <= 0
             THEN /\ Len(Appended) = 2
                  /\ \A k \in 1..2 :
                        /\ is_shot(Appended[k])
                        /\ Appended[k].instance_id.mesh = "Shot"
                        /\ Appended[k].instance_id \notin Used("Shot")
                        /\ Appended[k].instance_id \notin HandlesOf(objects)
                  /\ Appended[1].instance_id # Appended[2].instance_id
                  /\ shooting_delay' = shooting_delay_max
             ELSE /\ Appended = << >>
                  /\ shooting_delay' = DelayAfterDecrement]_vars

\* C21 witness: a frame fired a volley while Shots of an earlier volley were
\* in flight, and the cooldown is 13.
C21_Witness ==
    /\ SimulatedFrame
    /\ frame_log.fired
    /\ shooting_delay = shooting_delay_max
    /\ Len(frame_log.scanned) >= 4
    /\ Cardinality(Shots(frame_log.scanned)) >= 4
    /\ is_shot(frame_log.scanned[Len(frame_log.scanned)])
    /\ is_shot(frame_log.scanned[Len(frame_log.scanned) - 1])

\* A position within the bounds the claim gives the Shots.
InsideShotBounds(position) ==
    /\ ~position.nan
    /\ -X_LIMIT < position.x /\ position.x <= X_LIMIT
    /\ -Y_LIMIT_SHOT < position.y /\ position.y <= Y_LIMIT_SHOT

\* A position within the bounds the claim gives the Ship and the Obstacles.
InsideField(position, radius) ==
    /\ ~position.nan
    /\ -X_LIMIT <= position.x /\ position.x <= X_LIMIT
    /\ -Y_LIMIT + radius <= position.y /\ position.y <= Y_LIMIT - radius

\* C22: at the end of every frame each Shot of the collection has
\* -1.1 < x <= 1.1 and -0.6 < y <= 0.6, and the Ship and each Obstacle have
\* -1.1 <= x <= 1.1 and y within [-0.5 + radius, 0.5 - radius].
C22_AllInsideBounds ==
    last.op = "frame" =>
        \A i \in 1..Len(objects) :
            IF is_shot(objects[i])
            THEN InsideShotBounds(objects[i].position)
            ELSE InsideField(objects[i].position, Radius(objects[i]))

\* The kinds of the objects scanned at indices i and j.
Kinds(i, j) == <<frame_log.scanned[i].kind, frame_log.scanned[j].kind>>

\* The pairs of kinds, in the orientation of the scan, that have a rule.
RuledKinds == {<<"Shot", "Obstacle">>, <<"Obstacle", "Shot">>, <<"Ship", "Obstacle">>}

\* The object at index i overlaps, at its scan, the object at index j.
Overlaps(i, j) == i # j /\ Closer(frame_log.scanned[i], Seen(j, i))

\* The objects that overlap the object at index i at its scan and form with
\* it a pair that has a rule.
RuledOverlaps(i) == {j \in Scanned : Overlaps(i, j) /\ Kinds(i, j) \in RuledKinds}

\* The pairs that overlap and have no rule: Ship with Shot, Shot with Shot,
\* Obstacle with Obstacle (and an Obstacle's scan of the Ship).
UnruledOverlaps ==
    {p \in Scanned \X Scanned : Overlaps(p[1], p[2]) /\ Kinds(p[1], p[2]) \notin RuledKinds}

\* C23: an object that overlaps, at its scan, no object of a ruled pair
\* (a Shot no Obstacle, an Obstacle no Shot, the Ship no Obstacle) is not
\* marked dead unless it is a Shot that left the bounds, keeps its life, and,
\* if it is the Ship, game_over stays false, whatever else it overlaps; no
\* arm of the scan is taken for a Ship/Shot, Shot/Shot or Obstacle/Obstacle
\* pair.
C23_OnlyRuledPairsAct ==
    SimulatedFrame =>
        /\ \A h \in frame_log.hits : Kinds(h[1], h[2]) \in RuledKinds
        /\ \A i \in Scanned :
              RuledOverlaps(i) = {} =>
                  /\ i \in Range(frame_log.dead_object_indices)
                        => /\ is_shot(frame_log.scanned[i])
                           /\ Outside(frame_log.looped[i].position)
                  /\ is_obstacle(frame_log.scanned[i])
                        => frame_log.looped[i].life = frame_log.scanned[i].life
                  /\ is_ship(frame_log.scanned[i]) => ~game_over

\* C23 witness: in one frame the Ship overlapped a Shot, a Shot another
\* Shot and an Obstacle another Obstacle; nothing died, no life changed and
\* the game goes on.
C23_Witness ==
    /\ SimulatedFrame
    /\ ~game_over
    /\ frame_log.dead_object_indices = << >>
    /\ frame_log.hits = {}
    /\ \E p \in UnruledOverlaps : Kinds(p[1], p[2]) = <<"Ship", "Shot">>
    /\ \E p \in UnruledOverlaps : Kinds(p[1], p[2]) = <<"Shot", "Shot">>
    /\ \E p \in UnruledOverlaps : Kinds(p[1], p[2]) = <<"Obstacle", "Obstacle">>
    /\ \A i \in Scanned :
          is_obstacle(frame_log.scanned[i])
              => frame_log.looped[i].life = frame_log.scanned[i].life

\* The step leaves slot k of mesh m as it was: its record and its mark.
SlotUnchanged(m, k) ==
    /\ instance_table'[m].instances[k] = Instances(m)[k]
    /\ instance_table'[m].unused_instances[k] = Unused(m)[k]

\* C24: an allocate, a free or an update leaves every slot but the one of
\* its handle as it was (record and mark), in the mesh of the handle and in
\* the two other meshes, and creates no slot but the one an allocate returns;
\* an update leaves every mark as it was, the one of its own slot included.
C24_OnlyTargetedSlotChanges ==
    [][last'.op \in {"allocate", "free", "update"} =>
          /\ DOMAIN instance_table' = Meshes
          /\ \A m \in Meshes :
                /\ \A k \in 1..Len(Instances(m)) :
                      (m # last'.mesh \/ k # last'.index + 1) => SlotUnchanged(m, k)
                /\ Len(instance_table'[m].instances) =
                      IF /\ last'.op = "allocate"
                         /\ ~panicked'
                         /\ m = last'.mesh
                         /\ last'.index = Len(Instances(m))
                      THEN Len(Instances(m)) + 1
                      ELSE Len(Instances(m))
                /\ Len(instance_table'[m].unused_instances)
                      = Len(instance_table'[m].instances)
                /\ last'.op = "update"
                      => instance_table'[m].unused_instances = Unused(m)]_vars

\* C24 witness: an update stored a record in a slot whose neighbour in the
\* same mesh is free and zeroed; the neighbour is as it was.
C24_Witness ==
    /\ Did("update")
    /\ last.instance # Zeroed
    /\ Instances(last.mesh)[last.index + 1] = last.instance
    /\ \E k \in 1..Len(Instances(last.mesh)) :
          /\ k # last.index + 1
          /\ Unused(last.mesh)[k]
          /\ Instances(last.mesh)[k] = Zeroed

\* The objects of the collection that hold the handle of slot k of mesh m
\* (slots are counted from 1 here).
Owners(m, k) == {i \in 1..Len(objects) : objects[i].instance_id = InstanceID(m, k - 1)}

\* C25: in every state of the game, a slot of a mesh is marked in use exactly
\* when one object of the collection holds its handle, and that object is
\* of the kind of the mesh; a slot marked unused has no owner, and every
\* object's handle names a slot of the table marked in use.
C25_SlotInUseIffOwned ==
    /\ \A m \in Meshes :
          \A k \in 1..Len(Unused(m)) :
              /\ ~Unused(m)[k] <=> Cardinality(Owners(m, k)) = 1
              /\ Unused(m)[k] => Owners(m, k) = {}
              /\ \A i \in Owners(m, k) : objects[i].kind = m
    /\ \A i \in 1..Len(objects) :
          /\ objects[i].instance_id.mesh \in Meshes
          /\ objects[i].instance_id.instance_index
                 < Len(Unused(objects[i].instance_id.mesh))
          /\ ~Unused(objects[i].instance_id.mesh)[objects[i].instance_id.instance_index + 1]

\* C25 witness: after a restart of a game in which Obstacles had died, a
\* frame fired a volley; slots of dead Obstacles are free, the others owned.
C25_Witness ==
    /\ SimulatedFrame
    /\ frame_log.fired
    /\ score = 0
    /\ Len(Unused("Obstacle")) > INITIAL_OBSTACLES
    /\ \E k \in 1..Len(Unused("Obstacle")) : Unused("Obstacle")[k]
    /\ \E k \in 1..Len(Unused("Shot")) : ~Unused("Shot")[k]

\* The Ships among the objects of a collection.
Ships(objs) == {i \in 1..Len(objs) : is_ship(objs[i])}

\* C26: in every state of the game the collection holds exactly one Ship,
\* at index 0 (position 1 here); no frame puts the Ship in the death list or
\* removes it, and no step ends in the panic of a Ship lookup.
C26_OneShipAtIndex0 ==
    /\ Ships(objects) = {1}
    /\ ~panicked
    /\ Ships(frame_log.removed) = {}
    /\ \A k \in 1..Len(frame_log.dead_object_indices) :
          ~is_ship(frame_log.scanned[frame_log.dead_object_indices[k]])

\* C26 witness: a frame of a game in which the player had used the thrust
\* found the Ship hit by an Obstacle, and removed Shots behind it; the Ship
\* is still the first object.
C26_Witness ==
    /\ SimulatedFrame
    /\ game_over
    /\ thrusts >= 1
    /\ frame_log.removed # << >>
    /\ \E j \in Scanned : <<1, j>> \in frame_log.hits
    /\ is_ship(objects[1])

\* C27: every Obstacle of the collection has 1 <= life <= 21 in every state
\* of the game; in a frame no Obstacle's life grows, and an Obstacle whose
\* life reached 0 was removed by that frame.
C27_ObstacleLifeInRange ==
    /\ \A i \in Obstacles(objects) :
          1 <= objects[i].life /\ objects[i].life <= OBSTACLE_LIFE
    /\ SimulatedFrame =>
          \A i \in Obstacles(frame_log.scanned) :
              /\ frame_log.looped[i].life <= frame_log.scanned[i].life
              /\ frame_log.looped[i].life = 0
                    => /\ frame_log.looped[i] \in Range(frame_log.removed)
                       /\ frame_log.looped[i].instance_id \notin HandlesOf(
                              SubSeq(objects, 1, Len(Survivors)))

\* C27 witness: a frame took the last life of an Obstacle and removed it,
\* while another Obstacle that had lost life before lives on.
C27_Witness ==
    /\ SimulatedFrame
    /\ \E i \in Obstacles(frame_log.scanned) :
          /\ frame_log.scanned[i].life >= 1
          /\ frame_log.looped[i].life = 0
    /\ \E i \in Obstacles(objects) :
          1 <= objects[i].life /\ objects[i].life < OBSTACLE_LIFE

\* C28: the cooldown is within -1..13 in every state, and a frame fires a
\* volley only if the last frame that fired one is 13 simulated frames back
\* or more (or there is none), whenever the fire button is pressed and
\* released.
C28_CooldownRangeAndSpacing ==
    /\ [](-1 <= shooting_delay /\ shooting_delay <= shooting_delay_max)
    /\ [][(last'.op = "frame" /\ frame_log'.fired)
             => frame_log.since_fired + 1 >= shooting_delay_max]_vars

\* C28 witness: the volley of frame 14, with the two Shots of the volley of
\* frame 1 in flight: 13 frames apart.
C28_Witness ==
    /\ SimulatedFrame
    /\ frame_log.fired
    /\ frames = shooting_delay_max + 1
    /\ Cardinality(Shots(frame_log.scanned)) = 4
    /\ shooting_delay = shooting_delay_max

\* The number of Obstacles of a collection.
ObstacleCount(objs) == Cardinality(Obstacles(objs))

\* The number of Obstacles the step's frame found with life 0.
ObstacleDeaths ==
    Cardinality({i \in Obstacles(frame_log'.scanned) : frame_log'.looped[i].life = 0})

\* C29: the collection holds 2 Obstacles or more in every state of the
\* game, 5 before the first frame and after a restart; a frame in which no
\* Obstacle dies leaves their number, a frame in which k >= 1 die leaves
\* the number before, minus k, plus 2; no other step changes it.
C29_ObstaclesNeverRunOut ==
    /\ [](ObstacleCount(objects) >= 2)
    /\ []((frames = 0 \/ last.op = "restart") => ObstacleCount(objects) = INITIAL_OBSTACLES)
    /\ [][IF last'.op = "frame"
          THEN ObstacleCount(objects') =
                   IF ObstacleDeaths >= 1
                   THEN ObstacleCount(objects) - ObstacleDeaths + SPAWNED_OBSTACLES
                   ELSE ObstacleCount(objects)
          ELSE last'.op # "restart" => ObstacleCount(objects') = ObstacleCount(objects)]_vars

\* C29 witness: a frame in which two of the 5 Obstacles died left 5
\* Obstacles.
C29_Witness ==
    /\ SimulatedFrame
    /\ Cardinality(DeadObstacles) = 2
    /\ ObstacleCount(frame_log.scanned) = INITIAL_OBSTACLES
    /\ ObstacleCount(objects) = INITIAL_OBSTACLES
    /\ score = 2

====
